---- MODULE Spec2Model ----
(***************************************************************************)
(* A model of the wikimedia_parser package: the WikimediaRequest,          *)
(* PageStatisticsRecord and PageStatistics value types (types.py), the     *)
(* enumerations (enums.py) and the WikimediaParser fetcher (parser.py).    *)
(*                                                                         *)
(* Strings that the code takes apart (URLs, timestamps) are sequences of   *)
(* one-character strings; strings it only compares or concatenates         *)
(* (enumeration values, project and article names of records) are TLA+     *)
(* strings.  A rendered path is the sequence of its pieces.                *)
(***************************************************************************)
EXTENDS Integers, Sequences, FiniteSets, TLC

VARIABLES
    \* ---- WikimediaRequest.as_url (SpecRequest) ----
    request,        \* the WikimediaRequest under construction / rendered
    rendered,       \* result of request.as_url, or NotRendered
    \* ---- PageStatisticsRecord / PageStatistics (SpecRecords) ----
    records,        \* the *records argument (a sequence of records)
    statistics,     \* result of PageStatistics(*records)
    record_set,     \* result of list(set(records))
    compared,       \* result of records[i] == records[j] and of the hashes
    \* ---- WikimediaParser.get_page_statistics alone (SpecPage) ----
    call,           \* one single-page call: request, state, requests made, result
    \* ---- WikimediaParser.get_multiple_pages_statistics (Spec) ----
    pages_arg,      \* the pages argument, duplicates included
    chunk_size,     \* the chunk_size argument
    pages,          \* pages after list(set(pages))
    pc,             \* position of the orchestrating coroutine
    chunk_start,    \* i of range(0, len(pages), chunk_size)
    tasks,          \* the tasks of the current chunk
    gathered,       \* the future returned by asyncio.gather(*tasks)
    collected,      \* the collected list
    outcome,        \* what the caller got: nothing yet, a list, or an exception
    launched,       \* history: every client.get issued, in order
    chunks_issued,  \* history: every chunk the generator of line 90 yielded
    failures,       \* history: every failed call, in order of failure
    overtaken       \* history: a call succeeded before one launched earlier in its chunk

requestVars == <<request, rendered>>
recordVars  == <<records, statistics, record_set, compared>>
pageVars    == <<call>>
fetchVars   == <<pages_arg, chunk_size, pages, pc, chunk_start, tasks, gathered,
                 collected, outcome, launched, chunks_issued, failures, overtaken>>
vars == <<request, rendered, records, statistics, record_set, compared, call,
          pages_arg, chunk_size, pages, pc, chunk_start, tasks, gathered,
          collected, outcome, launched, chunks_issued, failures, overtaken>>

Min(a, b) == IF a <= b THEN a ELSE b

(***************************************************************************)
(* enums.py: StrEnum members are their string values.                      *)
(***************************************************************************)
AccessType == {"all-access", "desktop", "mobile-web", "mobile-app"}

UserAgent == {"all-agents", "user", "spider", "automated"}

DateGranularity == {"daily", "Monthly"}

(***************************************************************************)
(* Bounds of the model.                                                    *)
(***************************************************************************)
\* dates range over the first NumDays days of each modelled month
NumDays == 2
\* longest *records argument of PageStatistics
MaxRecords == 3
\* longest pages argument of get_multiple_pages_statistics
MaxPages == 3
\* largest chunk_size argument
MaxChunk == 2

(***************************************************************************)
(* Characters and URLs.                                                    *)
(***************************************************************************)
WordChars ==
    {"a","b","c","d","e","f","g","h","i","j","k","l","m","n","o","p","q","r",
     "s","t","u","v","w","x","y","z","_",
     "0","1","2","3","4","5","6","7","8","9"}

LitHttps == <<"h","t","t","p","s",":","/","/">>
LitDotWikipedia == <<".","w","i","k","i","p","e","d","i","a">>
LitOrgWiki == <<"o","r","g","/","w","i","k","i","/">>

\* https://ru.wikipedia.org/wiki/a-y
UrlRu == LitHttps \o <<"r","u">> \o LitDotWikipedia \o <<".">> \o LitOrgWiki
             \o <<"a","-","y">>
\* https://en.wikipedia.org/wiki/b,c
UrlEn == LitHttps \o <<"e","n">> \o LitDotWikipedia \o <<".">> \o LitOrgWiki
             \o <<"b",",","c">>
\* https://en.wikipedia.org/wiki/d#e  (the fragment is not part of the article)
UrlFragment == LitHttps \o <<"e","n">> \o LitDotWikipedia \o <<".">> \o LitOrgWiki
             \o <<"d","#","e">>
\* https://de.wikipedia.org/wiki/f/g  (the sub-path is not part of the article)
UrlSubpath == LitHttps \o <<"d","e">> \o LitDotWikipedia \o <<".">> \o LitOrgWiki
             \o <<"f","/","g">>
\* http://ru.wikipedia.org/wiki/a  (wrong scheme)
UrlHttp == <<"h","t","t","p",":","/","/">> \o <<"r","u">> \o LitDotWikipedia
             \o <<".">> \o LitOrgWiki \o <<"a">>
\* https://ru.wikipedia.org/wiki/  (no article)
UrlNoArticle == LitHttps \o <<"r","u">> \o LitDotWikipedia \o <<".">> \o LitOrgWiki
\* https://.wikipedia.org/wiki/a  (no language)
UrlNoProject == LitHttps \o LitDotWikipedia \o <<".">> \o LitOrgWiki \o <<"a">>

ValidUrls == {UrlRu, UrlEn, UrlFragment, UrlSubpath}
MalformedUrls == {UrlHttp, UrlNoArticle, UrlNoProject}
Urls == ValidUrls \cup MalformedUrls

(***************************************************************************)
(* datetime.date: ordering and strftime("%Y%m%d00").                       *)
(***************************************************************************)
Dates == [y : {2024, 2025}, m : {1, 12}, d : 1..NumDays]

DateLT(a, b) ==
    \/ a.y < b.y
    \/ a.y = b.y /\ a.m < b.m
    \/ a.y = b.y /\ a.m = b.m /\ a.d < b.d

DigitChar(n) == <<"0","1","2","3","4","5","6","7","8","9">>[n + 1]

\* "%Y%m%d00": four digits of year, two of month, two of day, the literal 00
Strftime(date) ==
    << DigitChar((date.y \div 1000) % 10), DigitChar((date.y \div 100) % 10),
       DigitChar((date.y \div 10) % 10), DigitChar(date.y % 10),
       DigitChar((date.m \div 10) % 10), DigitChar(date.m % 10),
       DigitChar((date.d \div 10) % 10), DigitChar(date.d % 10),
       "0", "0" >>

DigitValue(c) ==
    CASE c = "0" -> 0 [] c = "1" -> 1 [] c = "2" -> 2 [] c = "3" -> 3
      [] c = "4" -> 4 [] c = "5" -> 5 [] c = "6" -> 6 [] c = "7" -> 7
      [] c = "8" -> 8 [] c = "9" -> 9 [] OTHER -> -1

NoDate == [y |-> 0, m |-> 0, d |-> 0]

DaysInMonth(y, m) ==
    IF m = 2
    THEN (IF y % 4 = 0 /\ (y % 100 # 0 \/ y % 400 = 0) THEN 29 ELSE 28)
    ELSE IF m \in {4, 6, 9, 11} THEN 30 ELSE 31

\* datetime.strptime(stamp, "%Y%m%d00").date(): NoDate stands for the
\* ValueError of a stamp that does not match the format
Strptime(stamp) ==
    IF /\ Len(stamp) = 10
       /\ \A i \in 1..10 : DigitValue(stamp[i]) >= 0
       /\ stamp[9] = "0" /\ stamp[10] = "0"
    THEN LET y == 1000 * DigitValue(stamp[1]) + 100 * DigitValue(stamp[2])
                  + 10 * DigitValue(stamp[3]) + DigitValue(stamp[4])
             m == 10 * DigitValue(stamp[5]) + DigitValue(stamp[6])
             d == 10 * DigitValue(stamp[7]) + DigitValue(stamp[8])
         IN  IF y >= 1 /\ m \in 1..12 /\ d \in 1..DaysInMonth(y, m)
             THEN [y |-> y, m |-> m, d |-> d] ELSE NoDate
    ELSE NoDate

\* a slip that leaves the two dates in the order given
SortedDatesAsGiven(a, b) == <<a, b>>

\* sorted([start_timestamp, end_timestamp]): a stable sort of two dates
SortedDates(a, b) == IF DateLT(b, a) THEN <<b, a>> ELSE <<a, b>>

(***************************************************************************)
(* WikimediaRequest (types.py).                                            *)
(***************************************************************************)
WikimediaRequest(url, start, end, granularity, access, agent) ==
    [url |-> url, start_timestamp |-> start, end_timestamp |-> end,
     granularity |-> granularity, access |-> access, agent |-> agent]

HasLiteralAt(s, i, lit) ==
    /\ i + Len(lit) - 1 <= Len(s)
    /\ SubSeq(s, i, i + Len(lit) - 1) = lit

\* end (exclusive) of the longest run of characters of s from i on that
\* satisfy the class: a greedy \w+ or [^/#]+
WordRunEnd(s, i) ==
    CHOOSE j \in i..(Len(s) + 1) :
        /\ \A k \in i..(j - 1) : s[k] \in WordChars
        /\ j = Len(s) + 1 \/ s[j] \notin WordChars

ArticleRunEnd(s, i) ==
    CHOOSE j \in i..(Len(s) + 1) :
        /\ \A k \in i..(j - 1) : s[k] \notin {"/", "#"}
        /\ j = Len(s) + 1 \/ s[j] \in {"/", "#"}

NoMatch == [ok |-> FALSE, project |-> <<>>, article |-> <<>>]

\* re.match(r"https://(\w+\.wikipedia).org/wiki/([^/#]+)", url)
\* The character after a maximal \w+ run must be the "." of "\.wikipedia",
\* so no shorter run can match; the unescaped "." matches any character.
parse_url(url) ==
    LET langStart == Len(LitHttps) + 1
        langEnd   == WordRunEnd(url, langStart)
        anyChar   == langEnd + Len(LitDotWikipedia)
        artStart  == anyChar + 1 + Len(LitOrgWiki)
        artEnd    == ArticleRunEnd(url, artStart)
    IN  IF /\ HasLiteralAt(url, 1, LitHttps)
           /\ langEnd > langStart
           /\ HasLiteralAt(url, langEnd, LitDotWikipedia)
           /\ anyChar <= Len(url)
           /\ HasLiteralAt(url, anyChar + 1, LitOrgWiki)
           /\ artStart <= Len(url)
           /\ artEnd > artStart
        THEN [ok |-> TRUE,
              project |-> SubSeq(url, langStart, anyChar - 1),
              article |-> SubSeq(url, artStart, artEnd - 1)]
        ELSE NoMatch

UrlError == [ok |-> FALSE, exc |-> "ValueError: Unprocessable URL", path |-> <<>>]

\* WikimediaRequest.as_url
as_url(req) ==
    LET parsed == parse_url(req.url)
        dates  == SortedDates(req.start_timestamp, req.end_timestamp)
    IN  IF ~parsed.ok THEN UrlError
        ELSE [ok |-> TRUE, exc |-> "",
              path |-> <<"/">> \o parsed.project \o <<"/", req.access, "/", req.agent, "/">>
                       \o parsed.article \o <<"/", req.granularity, "/">>
                       \o Strftime(dates[1]) \o <<"/">> \o Strftime(dates[2])]

NotRendered == [ok |-> FALSE, exc |-> "not rendered", path |-> <<>>]

Requests ==
    { WikimediaRequest(u, a, b, g, ac, ag) :
        u \in Urls, a \in Dates, b \in Dates,
        g \in DateGranularity, ac \in AccessType, ag \in UserAgent }

(***************************************************************************)
(* PageStatisticsRecord (types.py).                                        *)
(***************************************************************************)
\* the attributes __eq__ compares
EqAttrs == {"project", "article", "granularity", "timestamp", "access", "agent"}

\* a slip that compares whole records, views included
RecordEqWithViews(a, b) == a = b

\* PageStatisticsRecord.__eq__ (both operands are records)
RecordEq(a, b) == \A attr \in EqAttrs : a[attr] = b[attr]

\* PageStatisticsRecord.__hash__: the hash of the tuple of the six key
\* fields, modelled by the tuple itself (no collisions)
RecordHash(r) ==
    <<r.project, r.article, r.granularity, r.timestamp, r.access, r.agent>>

\* set.add: an element is added unless one with the same hash and equal to
\* it is already there (the first one stays)
SetAdd(kept, r) ==
    IF \E i \in 1..Len(kept) :
           RecordHash(kept[i]) = RecordHash(r) /\ RecordEq(kept[i], r)
    THEN kept
    ELSE Append(kept, r)

RECURSIVE PySetFrom(_, _)
PySetFrom(kept, recs) ==
    IF recs = <<>> THEN kept
    ELSE PySetFrom(SetAdd(kept, Head(recs)), Tail(recs))

\* set(records): the elements kept, in insertion order
PySet(recs) == PySetFrom(<<>>, recs)

\* list(a set): its elements in an order fixed by the hash table, which the
\* program does not control: any order
IterationOrders(kept) ==
    { [i \in 1..Len(kept) |-> kept[p[i]]] :
        p \in { q \in [1..Len(kept) -> 1..Len(kept)] :
                  \A i, j \in 1..Len(kept) : q[i] = q[j] => i = j } }

\* insertion into a list sorted by timestamp, after the elements that do not
\* compare greater: sorted() is stable
InsertByTimestamp(sorted, r) ==
    LET n == Len(sorted)
        pos == CHOOSE k \in 0..n :
                  /\ \A i \in 1..k : ~DateLT(r.timestamp, sorted[i].timestamp)
                  /\ k = n \/ DateLT(r.timestamp, sorted[k + 1].timestamp)
    IN  SubSeq(sorted, 1, pos) \o <<r>> \o SubSeq(sorted, pos + 1, n)

RECURSIVE SortFrom(_, _)
SortFrom(sorted, recs) ==
    IF recs = <<>> THEN sorted
    ELSE SortFrom(InsertByTimestamp(sorted, Head(recs)), Tail(recs))

\* a slip that leaves the records in the order of the set
SortedByTimestampOmitted(recs) == recs

\* sorted(recs, key=lambda r: r.timestamp)
SortedByTimestamp(recs) == SortFrom(<<>>, recs)

(***************************************************************************)
(* PageStatistics (types.py).                                              *)
(***************************************************************************)
NoStatistics ==
    [ok |-> FALSE, exc |-> "not constructed", project |-> "", article |-> "",
     granularity |-> "", access |-> "", agent |-> "", records |-> <<>>]

Raised(exc) == [NoStatistics EXCEPT !.exc = exc]

\* the any([...]) of __init__: some record differs from records[0]
Inconsistent(recs) ==
    \E i \in 1..Len(recs) :
        \/ recs[i].article # recs[1].article
        \/ recs[i].granularity # recs[1].granularity
        \/ recs[i].access # recs[1].access
        \/ recs[i].agent # recs[1].agent
        \/ recs[i].project # recs[1].project

\* PageStatistics.__init__(*recs); order is the order in which list(set(recs))
\* lists the set
PageStatisticsInit(recs, order) ==
    IF recs = <<>> THEN Raised("IndexError")
    ELSE IF Inconsistent(recs) THEN Raised("ValueError: Inconsistent records")
    ELSE [ok |-> TRUE, exc |-> "",
          project |-> recs[1].project, article |-> recs[1].article,
          granularity |-> recs[1].granularity, access |-> recs[1].access,
          agent |-> recs[1].agent,
          records |-> SortedByTimestamp(order)]

\* PageStatistics.records_count
records_count(st) == Len(st.records)

\* PageStatistics.start_date
start_date(st) == SortedByTimestamp(st.records)[1].timestamp

\* PageStatistics.end_date
end_date(st) ==
    SortedByTimestamp(st.records)[Len(st.records)].timestamp

(***************************************************************************)
(* PageStatisticsRecord.from_dict: an item of the response's "items".      *)
(* timestamp and views are digit strings, the other fields strings.        *)
(***************************************************************************)
NoRecord ==
    [project |-> "", article |-> "", granularity |-> "", timestamp |-> NoDate,
     access |-> "", agent |-> "", views |-> 0]

RECURSIVE IntOf(_)
\* int(text) of a digit string; -1 stands for the ValueError of any other
IntOf(text) ==
    IF text = <<>> THEN -1
    ELSE IF DigitValue(text[Len(text)]) < 0 THEN -1
    ELSE IF Len(text) = 1 THEN DigitValue(text[1])
    ELSE LET hi == IntOf(SubSeq(text, 1, Len(text) - 1))
         IN  IF hi < 0 THEN -1 ELSE 10 * hi + DigitValue(text[Len(text)])

from_dict(data) ==
    IF \/ Strptime(data.timestamp) = NoDate
       \/ data.access \notin AccessType
       \/ data.granularity \notin DateGranularity
       \/ data.agent \notin UserAgent
       \/ IntOf(data.views) < 0
    THEN [ok |-> FALSE, record |-> NoRecord]
    ELSE [ok |-> TRUE,
          record |-> [project |-> data.project, article |-> data.article,
                      granularity |-> data.granularity,
                      timestamp |-> Strptime(data.timestamp),
                      access |-> data.access, agent |-> data.agent,
                      views |-> IntOf(data.views)]]

(***************************************************************************)
(* WikimediaParser.get_page_statistics (parser.py): one call.              *)
(*   state    Idle, Requesting, Success, Failed (Cancelled: only as a task)*)
(*   requests the paths given to client.get, in order                      *)
(*   status   the status code of the response, 0 before there is one       *)
(*   exc      the exception the call raised                                *)
(*   result   the PageStatistics the call returned                         *)
(***************************************************************************)
NewCall(req) ==
    [request |-> req, state |-> "Idle", requests |-> <<>>,
     status |-> 0, exc |-> "", result |-> NoStatistics]

\* line 57 up to the await: request.as_url raises, or client.get is called
CallStart(c) ==
    LET url == as_url(c.request)
    IN  IF ~url.ok
        THEN [c EXCEPT !.state = "Failed", !.exc = url.exc]
        ELSE [c EXCEPT !.state = "Requesting",
                       !.requests = Append(c.requests, url.path)]

\* a slip that accepts every status that is not an error status
StatusAcceptedBelow400(status) == status < 400

\* line 58: the response is accepted
StatusAccepted(status) == status = 200

\* lines 58-61 once client.get has returned resp; order is the order in
\* which the set of PageStatistics.__init__ lists the records
CallOnResponse(c, resp, order) ==
    LET parsed == [i \in 1..Len(resp.items) |-> from_dict(resp.items[i])]
        recs   == [i \in 1..Len(resp.items) |-> parsed[i].record]
        st     == PageStatisticsInit(recs, order)
    IN  IF ~StatusAccepted(resp.status)
        THEN [c EXCEPT !.state = "Failed", !.status = resp.status,
                       !.exc = "ConnectionError: status code"]
        ELSE IF ~resp.has_items
        THEN [c EXCEPT !.state = "Failed", !.status = resp.status,
                       !.exc = "KeyError: items"]
        ELSE IF \E i \in 1..Len(parsed) : ~parsed[i].ok
        THEN [c EXCEPT !.state = "Failed", !.status = resp.status,
                       !.exc = "ValueError: from_dict"]
        ELSE IF ~st.ok
        THEN [c EXCEPT !.state = "Failed", !.status = resp.status, !.exc = st.exc]
        ELSE [c EXCEPT !.state = "Success", !.status = resp.status, !.result = st]

\* the orders in which PageStatistics.__init__ may list the records of resp
ResponseOrders(resp) ==
    IF \A i \in 1..Len(resp.items) : from_dict(resp.items[i]).ok
    THEN IterationOrders(PySet([i \in 1..Len(resp.items) |->
                                    from_dict(resp.items[i]).record]))
    ELSE {<<>>}

\* client.get raised (a timeout, a connection that failed)
CallOnTransportError(c) ==
    [c EXCEPT !.state = "Failed", !.exc = "httpx.TransportError"]

(***************************************************************************)
(* The responses of the remote API the model draws from.                   *)
(***************************************************************************)
Stamp1 == <<"2","0","2","5","0","1","0","1","0","0">>
Stamp2 == <<"2","0","2","5","0","1","0","2","0","0">>

Item(stamp, access, views) ==
    [project |-> "ru.wikipedia", article |-> "a-y", granularity |-> "daily",
     timestamp |-> stamp, access |-> access, agent |-> "user", views |-> views]

ItemLists ==
    { <<>>,
      <<Item(Stamp2, "all-access", <<"1","5">>), Item(Stamp1, "all-access", <<"1","0">>)>>,
      <<Item(Stamp1, "all-access", <<"1","0">>), Item(Stamp1, "all-access", <<"7">>)>>,
      <<Item(Stamp1, "all-access", <<"1","0">>), Item(Stamp2, "desktop", <<"1","0">>)>>,
      <<Item(Stamp1, "tablet", <<"1","0">>)>>,
      <<Item(<<"2","0","2","5","0","1","0","1">>, "all-access", <<"1","0">>)>> }

Statuses == {200, 201, 204, 304, 404, 500}

Response(status, has_items, items) ==
    [status |-> status, has_items |-> has_items, items |-> items]

Responses ==
    { Response(s, TRUE, items) : s \in Statuses, items \in ItemLists }
        \cup { Response(s, FALSE, <<>>) : s \in Statuses }

(***************************************************************************)
(* The records the model builds PageStatistics from: the record of the     *)
(* tests (project "project", article "article", daily, all-access,         *)
(* all-agents) on three days around a change of year with views 10 or 15,  *)
(* and that record with one of the five identity fields changed.           *)
(***************************************************************************)
RecordDates ==
    { [y |-> 2024, m |-> 12, d |-> 2], [y |-> 2025, m |-> 1, d |-> 1],
      [y |-> 2025, m |-> 1, d |-> 2] }

TestRecord(timestamp, views) ==
    [project |-> "project", article |-> "article", granularity |-> "daily",
     timestamp |-> timestamp, access |-> "all-access", agent |-> "all-agents",
     views |-> views]

OtherRecords ==
    LET r == TestRecord([y |-> 2025, m |-> 1, d |-> 1], 10)
    IN  { [r EXCEPT !.project = "project-1"], [r EXCEPT !.article = "article-1"],
          [r EXCEPT !.granularity = "Monthly"], [r EXCEPT !.access = "desktop"],
          [r EXCEPT !.agent = "user"] }

RecordUniverse ==
    { TestRecord(t, v) : t \in RecordDates, v \in {10, 15} } \cup OtherRecords

RecordSeqs == UNION { [1..n -> RecordUniverse] : n \in 0..MaxRecords }

NotCompared == [done |-> FALSE, eq |-> FALSE, hash_eq |-> FALSE]
NoSet == [done |-> FALSE, elems |-> <<>>]

(***************************************************************************)
(* WikimediaParser.get_multiple_pages_statistics (parser.py).              *)
(*                                                                         *)
(* The orchestrating coroutine and the tasks it creates run on one event   *)
(* loop.  create_task only queues a task; the tasks of a chunk take their  *)
(* first step, in the order of their creation, once the coroutine waits    *)
(* for gather, and before any callback that a finished task queues.  A     *)
(* task finishes when its response arrives; gather's callback then settles *)
(* the future the coroutine waits for, and the coroutine resumes in a      *)
(* later step, so that other tasks may finish in between.                  *)
(***************************************************************************)
FetchUrls == {UrlRu, UrlEn, UrlSubpath, UrlHttp}

PageLists == UNION { [1..n -> FetchUrls] : n \in 0..MaxPages }

\* the start_date, end_date, granularity, access and agent arguments
MakeRequest(page) ==
    WikimediaRequest(page, [y |-> 2025, m |-> 1, d |-> 2],
                     [y |-> 2025, m |-> 1, d |-> 1], "daily", "all-access", "user")

FetchResponses ==
    { Response(200, TRUE,
               <<Item(Stamp2, "all-access", <<"1","5">>),
                 Item(Stamp1, "all-access", <<"1","0">>)>>),
      Response(200, TRUE, <<>>),
      Response(404, FALSE, <<>>) }

NoExc == [kind |-> "", status |-> 0, page |-> <<>>]
NoGather == [state |-> "none", exc |-> NoExc]
NoOutcome == [kind |-> "none", exc |-> NoExc, value |-> <<>>]

\* the pages argument as it is given, duplicates kept
PagesAsGiven(given) == {given}

\* list(set(pages)): every page once, in an order the program does not control
ListOfSet(given) ==
    LET distinct == { given[i] : i \in 1..Len(given) }
        n == Cardinality(distinct)
    IN  { order \in [1..n -> distinct] :
            \A i, j \in 1..n : order[i] = order[j] => i = j }

\* a slip that lets consecutive chunks share a page
ChunkOverlapping(pgs, i, size) == SubSeq(pgs, i + 1, Min(i + size + 1, Len(pgs)))

\* pages[i : i + chunk_size]
Chunk(pgs, i, size) == SubSeq(pgs, i + 1, Min(i + size, Len(pgs)))

NewTask(chunk, page) ==
    [chunk |-> chunk, call |-> NewCall(MakeRequest(page)), cancel_requested |-> FALSE]

\* task.done()
Done(task) == task.call.state \in {"Success", "Failed", "Cancelled"}

ExcOf(task) ==
    [kind |-> task.call.exc, status |-> task.call.status, page |-> task.call.request.url]

\* the indexes in tasks of the tasks of chunk number c
TasksOf(ts, c) == { k \in 1..Len(ts) : ts[k].chunk = c }

\* a slip that waits for every task and takes exceptions for results
\* (return_exceptions=True)
GatherCallbackReturnExceptions(g, ts, k) ==
    IF g.state # "pending" THEN g
    ELSE IF \A j \in TasksOf(ts, ts[k].chunk) : ts[j].call.state \in {"Success", "Failed"}
    THEN [state |-> "result", exc |-> NoExc]
    ELSE g

\* a slip that settles gather's future with the first task that finishes
GatherCallbackFirstDone(g, ts, k) ==
    IF g.state # "pending" THEN g
    ELSE IF ts[k].call.state = "Failed" THEN [state |-> "exception", exc |-> ExcOf(ts[k])]
    ELSE [state |-> "result", exc |-> NoExc]

\* asyncio.gather's callback when task k is done: the first exception
\* settles the future; so does the last of the results
GatherCallback(g, ts, k) ==
    IF g.state # "pending" THEN g
    ELSE IF ts[k].call.state = "Failed" THEN [state |-> "exception", exc |-> ExcOf(ts[k])]
    ELSE IF \A j \in TasksOf(ts, ts[k].chunk) : ts[j].call.state = "Success"
    THEN [state |-> "result", exc |-> NoExc]
    ELSE g

RECURSIVE ResultsFrom(_, _, _)
ResultsFrom(ts, c, k) ==
    IF k > Len(ts) THEN <<>>
    ELSE IF ts[k].chunk = c
    THEN <<[page |-> ts[k].call.request.url, statistics |-> ts[k].call.result]>>
             \o ResultsFrom(ts, c, k + 1)
    ELSE ResultsFrom(ts, c, k + 1)

RECURSIVE Reversed(_)
Reversed(seq) == IF seq = <<>> THEN <<>> ELSE Append(Reversed(Tail(seq)), Head(seq))

\* a slip that lists the results last task first
GatherResultsReversed(ts, c) == Reversed(ResultsFrom(ts, c, 1))

\* the value of await asyncio.gather(*tasks): the tasks' results in the
\* order of the tasks; each result is written with the page of its call
GatherResults(ts, c) == ResultsFrom(ts, c, 1)

\* a slip that leaves the other tasks running
CancelPendingOmitted(ts, c) == ts

\* lines 108-110: task.cancel() for every task of the chunk that is not done
CancelPending(ts, c) ==
    [k \in 1..Len(ts) |->
        IF ts[k].chunk = c /\ ~Done(ts[k])
        THEN [ts[k] EXCEPT !.cancel_requested = TRUE]
        ELSE ts[k]]

(***************************************************************************)
(* Neutral values of the variables a specification does not use.           *)
(***************************************************************************)
NoRequest ==
    WikimediaRequest(<<>>, [y |-> 2025, m |-> 1, d |-> 1],
                     [y |-> 2025, m |-> 1, d |-> 1], "daily", "all-access", "user")

NoCall == NewCall(NoRequest)

RequestIdle == request = NoRequest /\ rendered = NotRendered

RecordsIdle ==
    /\ records = <<>>
    /\ statistics = NoStatistics
    /\ record_set = NoSet
    /\ compared = NotCompared

PageIdle == call = NoCall

FetchIdle ==
    /\ pages_arg = <<>>
    /\ chunk_size = 1
    /\ pages = <<>>
    /\ pc = "unused"
    /\ chunk_start = 0
    /\ tasks = <<>>
    /\ gathered = NoGather
    /\ collected = <<>>
    /\ outcome = NoOutcome
    /\ launched = <<>>
    /\ chunks_issued = <<>>
    /\ failures = <<>>
    /\ overtaken = FALSE

(***************************************************************************)
(* SpecRequest: a WikimediaRequest is built and its as_url is read.        *)
(***************************************************************************)
InitRequest ==
    /\ request \in Requests
    /\ rendered = NotRendered
    /\ RecordsIdle /\ PageIdle /\ FetchIdle

\* reading request.as_url
Render ==
    /\ rendered = NotRendered
    /\ rendered' = as_url(request)
    /\ UNCHANGED <<request, recordVars, pageVars, fetchVars>>

\* WikimediaRequest(url, end, start, ...): the same request, dates exchanged
SwapDates ==
    /\ rendered # NotRendered
    /\ request.start_timestamp # request.end_timestamp
    /\ request' = WikimediaRequest(request.url, request.end_timestamp,
                                   request.start_timestamp, request.granularity,
                                   request.access, request.agent)
    /\ rendered' = NotRendered
    /\ UNCHANGED <<recordVars, pageVars, fetchVars>>

NextRequest == Render \/ SwapDates

SpecRequest == InitRequest /\ [][NextRequest]_vars

(***************************************************************************)
(* SpecRecords: records are compared, put in a set, and made a             *)
(* PageStatistics.                                                         *)
(***************************************************************************)
InitRecords ==
    /\ records \in RecordSeqs
    /\ statistics = NoStatistics
    /\ record_set = NoSet
    /\ compared = NotCompared
    /\ RequestIdle /\ PageIdle /\ FetchIdle

Untouched ==
    statistics = NoStatistics /\ record_set = NoSet /\ compared = NotCompared

\* records[0] == records[1], hash(records[0]) == hash(records[1])
Compare ==
    /\ Untouched
    /\ Len(records) >= 2
    /\ compared' = [done |-> TRUE,
                    eq |-> RecordEq(records[1], records[2]),
                    hash_eq |-> RecordHash(records[1]) = RecordHash(records[2])]
    /\ UNCHANGED <<records, statistics, record_set, requestVars, pageVars, fetchVars>>

\* list(set(records))
BuildSet ==
    /\ statistics = NoStatistics /\ record_set = NoSet
    /\ \E order \in IterationOrders(PySet(records)) :
           record_set' = [done |-> TRUE, elems |-> order]
    /\ UNCHANGED <<records, statistics, compared, requestVars, pageVars, fetchVars>>

\* PageStatistics(*records)
Construct ==
    /\ Untouched
    /\ \E order \in IterationOrders(PySet(records)) :
           statistics' = PageStatisticsInit(records, order)
    /\ UNCHANGED <<records, record_set, compared, requestVars, pageVars, fetchVars>>

NextRecords == Compare \/ BuildSet \/ Construct

SpecRecords == InitRecords /\ [][NextRecords]_vars

(***************************************************************************)
(* Claims about WikimediaRequest.as_url, under SpecRequest.                *)
(***************************************************************************)
SwappedRequest(req) ==
    WikimediaRequest(req.url, req.end_timestamp, req.start_timestamp,
                     req.granularity, req.access, req.agent)

EarlierDate(a, b) == IF DateLT(a, b) THEN a ELSE b
LaterDate(a, b) == IF DateLT(a, b) THEN b ELSE a

\* path has the form /{project}/{access}/{agent}/{article}/{granularity}/S/E
\* with S and E ten characters that read as the earlier and the later date
\* followed by 00
HasPathForm(path, req) ==
    LET project == parse_url(req.url).project
        article == parse_url(req.url).article
        head == <<"/">> \o project \o <<"/", req.access, "/", req.agent, "/">>
                \o article \o <<"/", req.granularity, "/">>
        n == Len(head)
    IN  /\ Len(path) = n + 21
        /\ SubSeq(path, 1, n) = head
        /\ Strptime(SubSeq(path, n + 1, n + 10))
              = EarlierDate(req.start_timestamp, req.end_timestamp)
        /\ path[n + 11] = "/"
        /\ Strptime(SubSeq(path, n + 12, n + 21))
              = LaterDate(req.start_timestamp, req.end_timestamp)

\* C10: for a valid URL, as_url is the same whichever of the two dates is
\* given first, and is the path /{project}/{access}/{agent}/{article}/
\* {granularity}/{earlier date}00/{later date}00.
C10_AsUrlSwapInvariant ==
    (rendered # NotRendered /\ request.url \in ValidUrls) =>
        /\ rendered.ok
        /\ rendered = as_url(SwappedRequest(request))
        /\ HasPathForm(rendered.path, request)

\* as_url was read of a request whose start date is after its end date
C10_Witness ==
    /\ rendered.ok
    /\ request.url = UrlRu
    /\ DateLT(request.end_timestamp, request.start_timestamp)
    /\ request.start_timestamp.y = 2025 /\ request.end_timestamp.y = 2024

(***************************************************************************)
(* Claims about PageStatisticsRecord and PageStatistics, under SpecRecords.*)
(***************************************************************************)
Agree(a, b) ==
    /\ a.project = b.project /\ a.article = b.article
    /\ a.granularity = b.granularity /\ a.timestamp = b.timestamp
    /\ a.access = b.access /\ a.agent = b.agent

Timestamps(recs) == { recs[i].timestamp : i \in 1..Len(recs) }

DiffersFromFirst(recs) ==
    \E i \in 1..Len(recs) :
        \E f \in {"project", "article", "granularity", "access", "agent"} :
            recs[i][f] # recs[1][f]

\* C8: PageStatistics of a non-empty sequence of records raises the
\* inconsistency error when a record differs from the first in project,
\* article, granularity, access or agent; otherwise it stores one record of
\* the input per distinct timestamp, in strictly ascending order of
\* timestamp, records_count is the number of distinct timestamps, start_date
\* the least and end_date the greatest timestamp.
C8_StatisticsRecords ==
    (statistics # NoStatistics /\ records # <<>>) =>
        IF DiffersFromFirst(records)
        THEN ~statistics.ok /\ statistics.exc = "ValueError: Inconsistent records"
        ELSE LET st == statistics.records
                 ts == Timestamps(records)
             IN  /\ statistics.ok
                 /\ \A k \in 1..Len(st) : \E i \in 1..Len(records) : st[k] = records[i]
                 /\ \A t \in ts :
                        Cardinality({k \in 1..Len(st) : st[k].timestamp = t}) = 1
                 /\ \A k \in 1..(Len(st) - 1) :
                        DateLT(st[k].timestamp, st[k + 1].timestamp)
                 /\ records_count(statistics) = Cardinality(ts)
                 /\ start_date(statistics) \in ts
                 /\ \A t \in ts : ~DateLT(t, start_date(statistics))
                 /\ end_date(statistics) \in ts
                 /\ \A t \in ts : ~DateLT(end_date(statistics), t)

\* a PageStatistics was built from three records given latest first, two of
\* them of the same day
C8_Witness ==
    /\ statistics.ok
    /\ Len(records) = 3
    /\ DateLT(records[2].timestamp, records[1].timestamp)
    /\ records[3].timestamp = records[1].timestamp
    /\ records[3].views # records[1].views
    /\ Len(statistics.records) = 2

\* C9: two records compare equal exactly when they agree on project,
\* article, granularity, timestamp, access and agent, whatever their views,
\* and then their hashes are equal; a set of records that differ at most in
\* views has one element.
C9_RecordEquality ==
    /\ compared.done =>
          /\ compared.eq <=> Agree(records[1], records[2])
          /\ Agree(records[1], records[2]) => compared.hash_eq
    /\ (/\ record_set.done
        /\ records # <<>>
        /\ \A i, j \in 1..Len(records) : Agree(records[i], records[j]))
          => Len(record_set.elems) = 1

\* two records that differ only in views were compared, and a set was built
\* of them
C9_Witness ==
    /\ compared.done /\ compared.eq /\ compared.hash_eq
    /\ records[1].views # records[2].views
    /\ record_set.done
    /\ Len(records) = MaxRecords
    /\ Len(record_set.elems) = 1

(***************************************************************************)
(* SpecPage: one call of get_page_statistics.                              *)
(***************************************************************************)
PageRequests ==
    { WikimediaRequest(u, [y |-> 2025, m |-> 1, d |-> NumDays],
                       [y |-> 2025, m |-> 1, d |-> 1], g, ac, ag) :
        u \in Urls, g \in DateGranularity, ac \in AccessType, ag \in UserAgent }

InitPage ==
    /\ call \in { NewCall(req) : req \in PageRequests }
    /\ RequestIdle /\ RecordsIdle /\ FetchIdle

PageStart ==
    /\ call.state = "Idle"
    /\ call' = CallStart(call)
    /\ UNCHANGED <<requestVars, recordVars, fetchVars>>

PageResponse ==
    /\ call.state = "Requesting"
    /\ \E resp \in Responses : \E order \in ResponseOrders(resp) :
           call' = CallOnResponse(call, resp, order)
    /\ UNCHANGED <<requestVars, recordVars, fetchVars>>

PageTransportError ==
    /\ call.state = "Requesting"
    /\ call' = CallOnTransportError(call)
    /\ UNCHANGED <<requestVars, recordVars, fetchVars>>

NextPage == PageStart \/ PageResponse \/ PageTransportError

SpecPage == InitPage /\ [][NextPage]_vars

(***************************************************************************)
(* Claims about get_page_statistics, under SpecPage.                       *)
(***************************************************************************)
Finished(c) == c.state \in {"Success", "Failed"}

Non2xx(status) == status # 0 /\ status \notin 200..299

\* whenever the response status is not 2xx the call has failed with the
\* connection error for that status, has no PageStatistics and has made
\* one request
FailsOnNon2xx(c) ==
    Non2xx(c.status) =>
        /\ c.state = "Failed"
        /\ c.exc = "ConnectionError: status code"
        /\ c.result = NoStatistics
        /\ Len(c.requests) = 1

\* C7 as stated: every call of get_page_statistics goes Idle -> Requesting
\* -> Success or Failed with exactly one HTTP request, and a response status
\* that is not 2xx ends it in Failed with a connection error, without a
\* PageStatistics or another request.
C7_ExactlyOneRequest ==
    /\ call.state = "Idle" => call.requests = <<>>
    /\ call.state = "Requesting" => Len(call.requests) = 1
    /\ Finished(call) => Len(call.requests) = 1
    /\ FailsOnNon2xx(call)

\* C7 amended: a call whose URL matches the pattern goes Idle -> Requesting
\* -> Success or Failed with exactly one HTTP request; a call whose URL does
\* not match fails with the URL error without any request; a response status
\* that is not 2xx ends the call in Failed with a connection error, without
\* a PageStatistics or another request.
C7_OneRequestUnlessMalformed ==
    /\ call.state = "Idle" => call.requests = <<>>
    /\ call.state = "Requesting" => Len(call.requests) = 1
    /\ Finished(call) =>
          IF parse_url(call.request.url).ok
          THEN Len(call.requests) = 1
          ELSE /\ call.requests = <<>>
               /\ call.state = "Failed"
               /\ call.exc = "ValueError: Unprocessable URL"
    /\ call.state = "Success" => call.status = 200 /\ call.result.ok
    /\ FailsOnNon2xx(call)

\* a call got a 404 response
C7_Witness ==
    /\ call.state = "Failed"
    /\ call.status = 404
    /\ call.exc = "ConnectionError: status code"
    /\ Len(call.requests) = 1

(***************************************************************************)
(* Spec: one call of get_multiple_pages_statistics.                        *)
(***************************************************************************)
Init ==
    /\ pages_arg \in PageLists
    /\ chunk_size \in 1..MaxChunk
    /\ pages = <<>>
    /\ pc = "start"
    /\ chunk_start = 0
    /\ tasks = <<>>
    /\ gathered = NoGather
    /\ collected = <<>>
    /\ outcome = NoOutcome
    /\ launched = <<>>
    /\ chunks_issued = <<>>
    /\ failures = <<>>
    /\ overtaken = FALSE
    /\ RequestIdle /\ RecordsIdle /\ PageIdle

CurrentChunk == Len(chunks_issued)

\* lines 88-89
Deduplicate ==
    /\ pc = "start"
    /\ \E order \in ListOfSet(pages_arg) : pages' = order
    /\ pc' = "loop"
    /\ UNCHANGED <<pages_arg, chunk_size, chunk_start, tasks, gathered, collected,
                   outcome, launched, chunks_issued, failures, overtaken,
                   requestVars, recordVars, pageVars>>

\* lines 90-104: the next chunk, its requests, its tasks, and the wait
StartChunk ==
    /\ pc = "loop"
    /\ chunk_start < Len(pages)
    /\ LET chunk == Chunk(pages, chunk_start, chunk_size)
       IN  /\ chunks_issued' = Append(chunks_issued, chunk)
           /\ tasks' = tasks \o [k \in 1..Len(chunk) |->
                                    NewTask(CurrentChunk + 1, chunk[k])]
    /\ gathered' = [state |-> "pending", exc |-> NoExc]
    /\ pc' = "gather"
    /\ UNCHANGED <<pages_arg, chunk_size, pages, chunk_start, collected, outcome,
                   launched, failures, overtaken, requestVars, recordVars, pageVars>>

\* line 113
Return ==
    /\ pc = "loop"
    /\ chunk_start >= Len(pages)
    /\ outcome' = [kind |-> "returned", exc |-> NoExc, value |-> collected]
    /\ pc' = "returned"
    /\ UNCHANGED <<pages_arg, chunk_size, pages, chunk_start, tasks, gathered,
                   collected, launched, chunks_issued, failures, overtaken,
                   requestVars, recordVars, pageVars>>

\* what a step of task k that leaves the tasks as ts does to the histories
\* and to gather's future
TaskStepped(ts, k) ==
    /\ tasks' = ts
    /\ launched' =
          IF Len(ts[k].call.requests) > Len(tasks[k].call.requests)
          THEN Append(launched, [chunk |-> ts[k].chunk, page |-> ts[k].call.request.url])
          ELSE launched
    /\ failures' =
          IF ts[k].call.state = "Failed"
          THEN Append(failures, [chunk |-> ts[k].chunk, exc |-> ExcOf(ts[k])])
          ELSE failures
    /\ gathered' = IF Done(ts[k]) THEN GatherCallback(gathered, ts, k) ELSE gathered
    /\ overtaken' =
          \/ overtaken
          \/ /\ ts[k].call.state = "Success"
             /\ \E j \in 1..(k - 1) :
                    ts[j].chunk = ts[k].chunk /\ ts[j].call.state = "Requesting"
    /\ UNCHANGED <<pages_arg, chunk_size, pages, pc, chunk_start, collected, outcome,
                   chunks_issued, requestVars, recordVars, pageVars>>

\* the first step of a task: get_page_statistics up to its await
TaskStart(k) ==
    /\ pc = "gather"
    /\ tasks[k].call.state = "Idle"
    /\ \A j \in 1..(k - 1) : tasks[j].call.state # "Idle"
    /\ TaskStepped([tasks EXCEPT ![k].call = CallStart(@)], k)

AllStarted == \A j \in 1..Len(tasks) : tasks[j].call.state # "Idle"

\* the response of task k's request arrives
TaskResponse(k) ==
    /\ AllStarted
    /\ tasks[k].call.state = "Requesting"
    /\ ~tasks[k].cancel_requested
    /\ \E resp \in FetchResponses : \E order \in ResponseOrders(resp) :
           TaskStepped([tasks EXCEPT ![k].call = CallOnResponse(@, resp, order)], k)

\* task k's request fails in the transport
TaskTransportError(k) ==
    /\ AllStarted
    /\ tasks[k].call.state = "Requesting"
    /\ ~tasks[k].cancel_requested
    /\ TaskStepped([tasks EXCEPT ![k].call = CallOnTransportError(@)], k)

\* CancelledError is thrown into task k at its await
TaskCancelled(k) ==
    /\ tasks[k].call.state = "Requesting"
    /\ tasks[k].cancel_requested
    /\ TaskStepped([tasks EXCEPT ![k].call.state = "Cancelled"], k)

\* line 105: gather returned the results of the chunk
ExtendCollected ==
    /\ pc = "gather"
    /\ gathered.state = "result"
    /\ collected' = collected \o GatherResults(tasks, CurrentChunk)
    /\ chunk_start' = chunk_start + chunk_size
    /\ pc' = "loop"
    /\ UNCHANGED <<pages_arg, chunk_size, pages, tasks, gathered, outcome, launched,
                   chunks_issued, failures, overtaken, requestVars, recordVars, pageVars>>

\* lines 106-112: gather raised; no await between the except and the raise
HandleException ==
    /\ pc = "gather"
    /\ gathered.state = "exception"
    /\ tasks' = CancelPending(tasks, CurrentChunk)
    /\ outcome' = [kind |-> "raised", exc |-> gathered.exc, value |-> <<>>]
    /\ pc' = "raised"
    /\ UNCHANGED <<pages_arg, chunk_size, pages, chunk_start, gathered, collected,
                   launched, chunks_issued, failures, overtaken,
                   requestVars, recordVars, pageVars>>

Next ==
    \/ Deduplicate
    \/ StartChunk
    \/ Return
    \/ \E k \in 1..Len(tasks) : TaskStart(k)
    \/ \E k \in 1..Len(tasks) : TaskResponse(k)
    \/ \E k \in 1..Len(tasks) : TaskTransportError(k)
    \/ \E k \in 1..Len(tasks) : TaskCancelled(k)
    \/ ExtendCollected
    \/ HandleException

Spec == Init /\ [][Next]_vars

(***************************************************************************)
(* Claims about get_multiple_pages_statistics, under Spec.                 *)
(***************************************************************************)
DistinctPages == { pages_arg[i] : i \in 1..Len(pages_arg) }

\* C1: once a call of a chunk has failed, the operation can only end by
\* raising that first failure: gather's future holds it, no later chunk is
\* issued and no request of one is launched, and the caller gets the
\* exception and no list, whatever was collected or completed before.
C1_FirstFailureRaised ==
    /\ failures # <<>> =>
          /\ pc \in {"gather", "raised"}
          /\ gathered = [state |-> "exception", exc |-> failures[1].exc]
          /\ CurrentChunk = failures[1].chunk
          /\ \A i \in 1..Len(launched) : launched[i].chunk <= failures[1].chunk
          /\ outcome.kind # "returned"
          /\ pc = "raised" =>
                outcome = [kind |-> "raised", exc |-> failures[1].exc, value |-> <<>>]
    /\ outcome.kind = "raised" => failures # <<>>

\* the second chunk failed after the first one was collected, and the
\* operation raised
C1_Witness ==
    /\ pc = "raised"
    /\ failures[1].chunk = 2
    /\ collected # <<>>
    /\ outcome.kind = "raised" /\ outcome.value = <<>>

\* C2: when the operation raises, every call of the failing chunk is done
\* or has been cancelled; calls that were done are not cancelled.
C2_PendingCancelledAtRaise ==
    outcome.kind = "raised" =>
        \A k \in TasksOf(tasks, failures[1].chunk) :
            /\ Done(tasks[k]) \/ tasks[k].cancel_requested
            /\ tasks[k].call.state \in {"Success", "Failed"} => ~tasks[k].cancel_requested

\* the operation raised while a call of the failing chunk was still waiting
\* for its response, and that call is cancelled
C2_Witness ==
    /\ outcome.kind = "raised"
    /\ \E k \in TasksOf(tasks, CurrentChunk) :
           tasks[k].call.state = "Requesting" /\ tasks[k].cancel_requested
    /\ \E k \in TasksOf(tasks, CurrentChunk) : tasks[k].call.state = "Failed"

InFlight == { k \in 1..Len(tasks) : tasks[k].call.state = "Requesting" }

\* C3: at most chunk_size requests are in flight, and when a request of a
\* chunk has been launched every call of every earlier chunk has succeeded.
C3_BoundedSequentialChunks ==
    /\ Cardinality(InFlight) <= chunk_size
    /\ \A i \in 1..Len(launched) : \A k \in 1..Len(tasks) :
          tasks[k].chunk < launched[i].chunk => tasks[k].call.state = "Success"
    /\ \A k \in 1..Len(tasks) :
          tasks[k].chunk < CurrentChunk => tasks[k].call.state = "Success"

\* the request of the second chunk is in flight after the two requests of
\* the first chunk were
C3_Witness ==
    /\ chunk_size = 2
    /\ Len(launched) = 3
    /\ launched[3].chunk = 2
    /\ Cardinality(InFlight) = 1

\* C4: when every call succeeds the operation returns one PageStatistics
\* per distinct page of the input, in the order in which the requests were
\* launched (chunk after chunk), each the result of the call for its page,
\* in whatever order the calls completed.
C4_ResultsInLaunchOrder ==
    (outcome.kind = "returned") =>
        /\ failures = <<>>
        /\ Len(outcome.value) = Cardinality(DistinctPages)
        /\ Len(launched) = Len(outcome.value)
        /\ \A p \in DistinctPages :
              Cardinality({i \in 1..Len(outcome.value) : outcome.value[i].page = p}) = 1
        /\ \A i \in 1..Len(outcome.value) :
              /\ outcome.value[i].page = launched[i].page
              /\ outcome.value[i].statistics.ok
              /\ \E k \in 1..Len(tasks) :
                    /\ tasks[k].call.request.url = outcome.value[i].page
                    /\ tasks[k].call.result = outcome.value[i].statistics
        /\ \A i, j \in 1..Len(launched) : i < j => launched[i].chunk <= launched[j].chunk

\* three pages were returned in two chunks, and a call succeeded before one
\* launched earlier in its chunk
C4_Witness ==
    /\ outcome.kind = "returned"
    /\ overtaken
    /\ chunk_size = 2
    /\ Len(outcome.value) = 3

\* C5: no page URL is requested twice, and no call makes a second request.
C5_AtMostOneRequestPerUrl ==
    /\ \A u \in FetchUrls :
          Cardinality({i \in 1..Len(launched) : launched[i].page = u}) <= 1
    /\ \A k \in 1..Len(tasks) : Len(tasks[k].call.requests) <= 1
    /\ \A i \in 1..Len(launched) : launched[i].page \in DistinctPages

\* a page given twice was requested, its request failed, and the operation
\* raised
C5_Witness ==
    /\ Len(pages_arg) = 3
    /\ pages_arg[1] = pages_arg[3]
    /\ pages_arg[1] # pages_arg[2]
    /\ pc = "raised"
    /\ outcome.exc.page = pages_arg[1]
    /\ outcome.exc.status = 404
    /\ Len(launched) = 2

CeilDiv(n, c) == (n + c - 1) \div c

RECURSIVE Concat(_)
Concat(seqs) == IF seqs = <<>> THEN <<>> ELSE Head(seqs) \o Concat(Tail(seqs))

\* C6: the chunks are consecutive pieces of the deduplicated pages, every
\* chunk but the last issued has chunk_size pages and every chunk has
\* between 1 and chunk_size; when the operation returns there are
\* ceil(n / chunk_size) chunks and every distinct page is in exactly one.
C6_ChunkPartition ==
    LET n == Cardinality(DistinctPages)
        issued == chunks_issued
    IN  /\ \A c \in 1..Len(issued) :
              /\ Len(issued[c]) \in 1..chunk_size
              /\ c < Len(issued) => Len(issued[c]) = chunk_size
        /\ Len(Concat(issued)) <= Len(pages)
        /\ Concat(issued) = SubSeq(pages, 1, Len(Concat(issued)))
        /\ pc = "returned" =>
              /\ Len(issued) = CeilDiv(n, chunk_size)
              /\ \A p \in DistinctPages :
                    Cardinality({ <<c, i>> \in (1..Len(issued)) \X (1..chunk_size) :
                                    i <= Len(issued[c]) /\ issued[c][i] = p }) = 1

\* three pages were fetched in a chunk of two and a chunk of one
C6_Witness ==
    /\ pc = "returned"
    /\ chunk_size = 2
    /\ Len(chunks_issued) = 2
    /\ Len(chunks_issued[1]) = 2
    /\ Len(chunks_issued[2]) = 1

====
